---------------------------- MODULE Spec2Model ----------------------------
(***************************************************************************)
(* ColorCast (src/colorcast.py): the colour transfer engine and the Qt     *)
(* shell that drives it.                                                   *)
(*                                                                         *)
(* Samples are fixed-point numbers.  A loaded image (content, style) holds *)
(* samples on the grid 0..U, the sample v standing for v/U.  A computed    *)
(* image (styled, result) holds samples in units of 1/F, F = U*K, and      *)
(* every division rounds down.  An image is the sequence of its pixels, a  *)
(* pixel the sequence <<r, g, b>>; an image of n pixels has the numpy      *)
(* shape (1, n, 3).  The empty sequence stands for Python's None.          *)
(***************************************************************************)
EXTENDS Integers, Sequences, FiniteSets

VARIABLES
    content_image,    \* self.content_image (grid U), None when not loaded
    style_image,      \* self.style_image (grid U)
    styled_image,     \* self.styled_image (units 1/F)
    result_image,     \* self.result_image (units 1/F)
    intensity,        \* self.intensity, in percent (1.0 is 100)
    transfer_method,  \* self.transfer_method
    slider,           \* self.intensity_slider.value(), and the percentage in intensity_label
    timer_active,     \* self.update_timer.isActive()
    masks,            \* the three region masks of the content image
    saved,            \* the 8-bit image handed to io.imsave
    err,              \* the exception the last call raised, "" when none
    op,               \* the operation that ran last
    blend_intensity,  \* the intensity the last blend_images call was given
    timer_blends      \* blends the timer ran since the timer was last started

vars == <<content_image, style_image, styled_image, result_image, intensity,
          transfer_method, slider, timer_active, masks, saved, err, op,
          blend_intensity, timer_blends>>

---------------------------------------------------------------------------
(* Representation and bounds *)

\* the widest content image the engine is given
MaxW == 3

\* the widest style image the engine is given
MaxStyleW == 2

\* img_as_float: a loaded sample v of 0..U is the float v/U
U == 10

\* a computed sample is kept to 1/(U*K)
K == 1000

F == U * K

None == <<>>

\* 1/epsilon of color_transfer_meanstd (epsilon = 1e-8)
EpsInv == 100000000

shadow_threshold == 300

highlight_threshold == 700

LumaR == 299

LumaG == 587

LumaB == 114

Channels == 1..3

Min2(a, b) == IF a < b THEN a ELSE b

Max2(a, b) == IF a > b THEN a ELSE b

SetMin(S) == CHOOSE x \in S : \A y \in S : x <= y

SetMax(S) == CHOOSE x \in S : \A y \in S : x >= y

\* np.clip(v, lo, hi)
Clip(v, lo, hi) == Max2(lo, Min2(v, hi))

RECURSIVE SumSeq(_)
SumSeq(s) == IF s = <<>> THEN 0 ELSE Head(s) + SumSeq(Tail(s))

\* floor of the square root of v, known to lie in lo..hi
RECURSIVE IsqrtIn(_, _, _)
IsqrtIn(v, lo, hi) ==
    IF lo >= hi THEN lo
    ELSE LET mid == (lo + hi + 1) \div 2
         IN  IF mid * mid <= v THEN IsqrtIn(v, mid, hi) ELSE IsqrtIn(v, lo, mid - 1)

Isqrt(v) == IsqrtIn(v, 0, 46340)

\* an array: the function f over 1..n as the tuple of its values
Array(f) == SubSeq(f, 1, Len(f))

\* img[:,:,c]
Chan(img, c) == Array([p \in 1..Len(img) |-> img[p][c]])

\* the loaded image in units of 1/F
ToFine(img) == Array([p \in 1..Len(img) |-> <<img[p][1] * K, img[p][2] * K, img[p][3] * K>>])

\* np.stack of three channel planes back into pixels
Stack(r, g, b) == Array([p \in 1..Len(r) |-> <<r[p], g[p], b[p]>>])

---------------------------------------------------------------------------
(* Shape Reconciler: transform.resize(reference, source.shape, ...) *)

\* One plane resampled to n samples: linear interpolation (order 1) at the
\* pixel centres, the edge sample repeated outside.  The Gaussian prefilter
\* of anti_aliasing is a symmetric average that keeps the range and is left
\* out.
ResizePlane(plane, n) ==
    LET m == Len(plane)
    IN  Array([j \in 1..n |->
            LET x  == Clip((2 * j - 1) * m - n, 0, (m - 1) * 2 * n)
                i0 == x \div (2 * n)
                r  == x % (2 * n)
                a  == plane[i0 + 1]
                b  == plane[Min2(i0 + 2, m)]
            IN  (a * (2 * n - r) + b * r) \div (2 * n)])

Resize(img, n) ==
    Stack(ResizePlane(Chan(img, 1), n), ResizePlane(Chan(img, 2), n),
          ResizePlane(Chan(img, 3), n))

\* lines 52-54 (and 68-70, 100-102, 118-120): the reference in units of 1/F,
\* resized when its shape differs from the source's
Reconcile(source, reference) ==
    IF Len(source) # Len(reference)
    THEN Resize(ToFine(reference), Len(source))
    ELSE ToFine(reference)

---------------------------------------------------------------------------
(* Histogram Matcher: exposure.match_histograms on one channel *)

CountLE(plane, v) == Cardinality({p \in 1..Len(plane) : plane[p] <= v})

\* np.unique + cumsum quantiles + np.interp(src_quantiles, tmpl_quantiles,
\* tmpl_values), read back at every source sample
match_histograms(src, tmpl) ==
    LET ns == Len(src)
        nt == Len(tmpl)
        tv == {tmpl[q] : q \in 1..nt}
    IN  Array([p \in 1..ns |->
            LET cs    == CountLE(src, src[p])
                below == {t \in tv : CountLE(tmpl, t) * ns <= cs * nt}
            IN  IF below = {} THEN SetMin(tv)
                ELSE LET tj == SetMax(below)
                     IN  IF tj = SetMax(tv) THEN tj
                         ELSE LET tn == SetMin({t \in tv : t > tj})
                                  cj == CountLE(tmpl, tj)
                                  cn == CountLE(tmpl, tn)
                              IN  tj + ((cs * nt - cj * ns) * (tn - tj))
                                           \div (ns * (cn - cj))])

match_histograms_multichannel(source, reference) ==
    LET ref == Reconcile(source, reference)
    IN  Stack(match_histograms(Chan(source, 1), Chan(ref, 1)),
              match_histograms(Chan(source, 2), Chan(ref, 2)),
              match_histograms(Chan(source, 3), Chan(ref, 3)))

---------------------------------------------------------------------------
(* Statistical Transfer *)

\* np.std of the source channel is kept to 1/(U n StdRes), n the pixel count
StdRes == 1000

\* floor(k * e / (s * e + c)), each step within 32 bits
MulDivEps(k, s, c, e) ==
    IF s = 0 THEN (k * e) \div c
    ELSE LET q == k \div s
             r == k % s
         IN  q + ((r * e - q * c) \div (s * e + c))

\* mutant: the source mean added back in place of the reference mean
MeanStdPlaneKeepsMean(src, ref) ==
    LET n    == Len(src)
        ssum == SumSeq(src)
        svar == n * SumSeq([p \in 1..n |-> src[p] * src[p]]) - ssum * ssum
        ssd  == Isqrt(svar * StdRes * StdRes)
        rsum == SumSeq(ref)
        rsd  == Isqrt(n * SumSeq([p \in 1..n |-> ref[p] * ref[p]]) - rsum * rsum)
    IN  Array([p \in 1..n |->
            (MulDivEps((n * src[p] - ssum) * rsd * StdRes, ssd, U * n,
                       EpsInv \div StdRes) + ssum * K) \div n])

\* One channel, before the clip.  With n pixels, the source mean is ssum/(U n),
\* the source std ssd/(U n StdRes), the reference mean rsum/(F n) and the
\* reference std rsd/(F n).  In units of 1/F,
\*   (a - mean) * (ref_std / (std + 1e-8)) + ref_mean
\*     = ((n a - ssum) * rsd * EpsInv / (ssd * EpsInv / StdRes + U n) + rsum) / n
MeanStdPlane(src, ref) ==
    LET n    == Len(src)
        ssum == SumSeq(src)
        svar == n * SumSeq([p \in 1..n |-> src[p] * src[p]]) - ssum * ssum
        ssd  == Isqrt(svar * StdRes * StdRes)
        rsum == SumSeq(ref)
        rsd  == Isqrt(n * SumSeq([p \in 1..n |-> ref[p] * ref[p]]) - rsum * rsum)
    IN  Array([p \in 1..n |->
            (MulDivEps((n * src[p] - ssum) * rsd * StdRes, ssd, U * n,
                       EpsInv \div StdRes) + rsum) \div n])

ClipImage(img) ==
    Array([p \in 1..Len(img) |->
              <<Clip(img[p][1], 0, F), Clip(img[p][2], 0, F), Clip(img[p][3], 0, F)>>])

color_transfer_meanstd(source, reference) ==
    LET ref == Reconcile(source, reference)
    IN  ClipImage(Stack(MeanStdPlane(Chan(source, 1), Chan(ref, 1)),
                        MeanStdPlane(Chan(source, 2), Chan(ref, 2)),
                        MeanStdPlane(Chan(source, 3), Chan(ref, 3))))

---------------------------------------------------------------------------
(* Tone Curve Library *)

\* 0.5 + 0.5 * sin(pi * (v - 0.5)) at v = 0, 0.1, ..., 1, in units of 1/10000
SCurveKnots == <<0, 245, 955, 2061, 3455, 5000, 6545, 7939, 9045, 9755, 10000>>

\* v ** 0.8 at v = 0, 0.1, ..., 1, in units of 1/10000
ContrastKnots == <<0, 1585, 2759, 3817, 4804, 5743, 6645, 7518, 8365, 9192, 10000>>

\* a curve given by its knots, linear between them, on a sample in units of 1/F
Knotted(knots, v) ==
    LET step == F \div 10
        i    == Clip(v \div step, 0, 9)
        r    == v - i * step
    IN  ((((knots[i + 1] * (step - r)) + (knots[i + 2] * r)) \div step) * F) \div 10000

apply_curve(v, curve_type) ==
    IF curve_type = "linear" THEN v
    ELSE IF curve_type = "s-curve" THEN Knotted(SCurveKnots, v)
    ELSE IF curve_type = "contrast" THEN Knotted(ContrastKnots, v)
    ELSE v

lut_transfer_with_curve(source, reference, curve_type) ==
    LET matched == match_histograms_multichannel(source, reference)
    IN  ClipImage(Array([p \in 1..Len(matched) |->
                            <<apply_curve(matched[p][1], curve_type),
                              apply_curve(matched[p][2], curve_type),
                              apply_curve(matched[p][3], curve_type)>>]))

---------------------------------------------------------------------------
(* Region Selector *)

\* source_lum of one pixel, in units of 1/(1000 U)
Lum(px) == LumaR * px[1] + LumaG * px[2] + LumaB * px[3]

Bool2Float(b) == IF b THEN 1 ELSE 0

\* mutant: midtones with strict comparisons
RegionMaskStrict(source, mode) ==
    Array([p \in 1..Len(source) |->
        LET l == Lum(source[p])
        IN  IF mode = "full" THEN 1
            ELSE IF mode = "shadows" THEN Bool2Float(l < shadow_threshold * U)
            ELSE IF mode = "midtones"
                 THEN Bool2Float(l > shadow_threshold * U /\ l < highlight_threshold * U)
            ELSE IF mode = "highlights" THEN Bool2Float(l > highlight_threshold * U)
            ELSE 1])

\* the mask of lines 129-138, one entry per pixel
RegionMask(source, mode) ==
    Array([p \in 1..Len(source) |->
        LET l == Lum(source[p])
        IN  IF mode = "full" THEN 1
            ELSE IF mode = "shadows" THEN Bool2Float(l < shadow_threshold * U)
            ELSE IF mode = "midtones"
                 THEN Bool2Float(l >= shadow_threshold * U /\ l <= highlight_threshold * U)
            ELSE IF mode = "highlights" THEN Bool2Float(l > highlight_threshold * U)
            ELSE 1])

\* mutant: the mask applied to the wrong operand
MaskCompositeInverted(src, matched, mask) ==
    Array([p \in 1..Len(src) |->
        [c \in Channels |-> src[p][c] * mask[p] + matched[p][c] * (1 - mask[p])]])

\* result = source * (1 - mask) + matched * mask
MaskComposite(src, matched, mask) ==
    Array([p \in 1..Len(src) |->
        [c \in Channels |-> src[p][c] * (1 - mask[p]) + matched[p][c] * mask[p]]])

selective_color_transfer(source, reference, mode) ==
    LET mask    == RegionMask(source, mode)
        matched == match_histograms_multichannel(source, reference)
    IN  ClipImage(MaskComposite(ToFine(source), matched, mask))

---------------------------------------------------------------------------
(* Compositor *)

\* numpy broadcasting of shapes (1, a, 3) and (1, b, 3)
Broadcastable(a, b) == a = b \/ a = 1 \/ b = 1

BIndex(img, p) == IF Len(img) = 1 THEN 1 ELSE p

\* mutant: the intensity used as given, without the clip
ClipIntensityMissing(t) == t

\* np.clip(intensity, 0.0, 1.0), in percent
ClipIntensity(t) == Clip(t, 0, 100)

\* mutant: the two weights exchanged
blend_images_swapped(original, styled, t) ==
    LET i == Clip(t, 0, 100)
    IN  Array([p \in 1..Max2(Len(original), Len(styled)) |->
            [c \in Channels |->
                (original[BIndex(original, p)][c] * i
                   + styled[BIndex(styled, p)][c] * (100 - i)) \div 100]])

\* original * (1 - intensity) + styled * intensity; both in units of 1/F.
\* Defined when the shapes broadcast; numpy raises ValueError otherwise.
blend_images(original, styled, t) ==
    LET i == ClipIntensity(t)
    IN  Array([p \in 1..Max2(Len(original), Len(styled)) |->
            [c \in Channels |->
                (original[BIndex(original, p)][c] * (100 - i)
                   + styled[BIndex(styled, p)][c] * i) \div 100]])

---------------------------------------------------------------------------
(* Transfer Dispatcher: the if/elif chain of apply_style_transfer *)

KnownMethods == {"histogram", "meanstd", "lut_linear", "lut_scurve", "lut_contrast",
                 "selective_shadows", "selective_midtones", "selective_highlights"}

\* mutant: the final else falls back to mean/std transfer
FallbackMeanStd(c, s) == color_transfer_meanstd(c, s)

\* the final else of the chain (lines 348-349)
Fallback(c, s) == match_histograms_multichannel(c, s)

Dispatch(m, c, s) ==
    IF m = "histogram" THEN match_histograms_multichannel(c, s)
    ELSE IF m = "meanstd" THEN color_transfer_meanstd(c, s)
    ELSE IF m = "lut_linear" THEN lut_transfer_with_curve(c, s, "linear")
    ELSE IF m = "lut_scurve" THEN lut_transfer_with_curve(c, s, "s-curve")
    ELSE IF m = "lut_contrast" THEN lut_transfer_with_curve(c, s, "contrast")
    ELSE IF m = "selective_shadows" THEN selective_color_transfer(c, s, "shadows")
    ELSE IF m = "selective_midtones" THEN selective_color_transfer(c, s, "midtones")
    ELSE IF m = "selective_highlights" THEN selective_color_transfer(c, s, "highlights")
    ELSE Fallback(c, s)

---------------------------------------------------------------------------
(* save_result *)

\* (np.clip(x, 0, 1) * 255).astype(np.uint8): the fraction is cut off
ToUint8(x) == (Clip(x, 0, F) * 255) \div F

SaveImage(img) == [p \in 1..Len(img) |-> [c \in Channels |-> ToUint8(img[p][c])]]

---------------------------------------------------------------------------
(* The engine on its own: transfer, blend, masks and save as functions of     *)
(* inputs drawn from bounded sets.                                            *)

ContentPalette == {<<2, 2, 2>>, <<3, 3, 3>>, <<7, 7, 7>>, <<10, 8, 6>>}

StylePalette == {<<8, 8, 8>>, <<10, 2, 0>>}

\* the four pixels of a 2x2 image, all (0.2, 0.2, 0.2) and all (0.8, 0.8, 0.8)
FlatContent == <<<<2, 2, 2>>, <<2, 2, 2>>, <<2, 2, 2>>, <<2, 2, 2>>>>

FlatStyle == <<<<8, 8, 8>>, <<8, 8, 8>>, <<8, 8, 8>>, <<8, 8, 8>>>>

ImagesOver(palette, maxw) == UNION {[1..w -> palette] : w \in 1..maxw}

\* the eight identifiers and one that is none of them
MethodInputs == KnownMethods \cup {"sepia"}

\* intensities in percent, two of them outside [0, 1]
IntensityInputs == {-50, 0, 85, 100, 150}

\* images handed to save directly, with samples outside [0, 1]
SaveInputs == {<<<<-500, 5000, 12000>>>>, <<<<9990, 20, 2980>>>>}

NoMasks == [shadows |-> <<>>, midtones |-> <<>>, highlights |-> <<>>]

Init ==
    /\ content_image \in ImagesOver(ContentPalette, MaxW) \cup {FlatContent}
    /\ style_image \in ImagesOver(StylePalette, MaxStyleW) \cup {FlatStyle}
    /\ styled_image = None
    /\ result_image = None
    /\ intensity = 100
    /\ transfer_method = "histogram"
    /\ slider = 85
    /\ timer_active = FALSE
    /\ masks = NoMasks
    /\ saved = None
    /\ err = ""
    /\ op = "init"
    /\ blend_intensity = 100
    /\ timer_blends = 0

\* transfer(content, style, method, intensity): the body of
\* apply_style_transfer, lines 332-351
Transfer(m, t) ==
    /\ op = "init"
    /\ transfer_method' = m
    /\ intensity' = t
    /\ styled_image' = Dispatch(m, content_image, style_image)
    /\ result_image' = blend_images(ToFine(content_image), styled_image', t)
    /\ blend_intensity' = t
    /\ err' = ""
    /\ op' = "transfer"
    /\ UNCHANGED <<content_image, style_image, slider, timer_active, masks, saved,
                   timer_blends>>

\* blend_images(original, styled, intensity) on two images of any shapes
Compose(t) ==
    /\ op = "init"
    /\ intensity' = t
    /\ blend_intensity' = t
    /\ IF Broadcastable(Len(content_image), Len(style_image))
       THEN /\ result_image' = blend_images(ToFine(content_image),
                                            ToFine(style_image), t)
            /\ err' = ""
       ELSE /\ result_image' = result_image
            /\ err' = "ValueError"
    /\ op' = "blend"
    /\ UNCHANGED <<content_image, style_image, styled_image, transfer_method, slider,
                   timer_active, masks, saved, timer_blends>>

\* the three masks selective_color_transfer computes for the content image
ComputeMasks ==
    /\ op = "init"
    /\ masks' = [shadows    |-> RegionMask(content_image, "shadows"),
                 midtones   |-> RegionMask(content_image, "midtones"),
                 highlights |-> RegionMask(content_image, "highlights")]
    /\ op' = "masks"
    /\ UNCHANGED <<content_image, style_image, styled_image, result_image, intensity,
                   transfer_method, slider, timer_active, saved, err,
                   blend_intensity, timer_blends>>

\* a result image given to save as it is
GiveResult(img) ==
    /\ op = "init"
    /\ result_image' = img
    /\ op' = "given"
    /\ UNCHANGED <<content_image, style_image, styled_image, intensity,
                   transfer_method, slider, timer_active, masks, saved, err,
                   blend_intensity, timer_blends>>

\* save_result, lines 369-375, with a path chosen
Save ==
    /\ op = "given"
    /\ result_image # None
    /\ saved' = SaveImage(result_image)
    /\ op' = "save"
    /\ UNCHANGED <<content_image, style_image, styled_image, result_image, intensity,
                   transfer_method, slider, timer_active, masks, err,
                   blend_intensity, timer_blends>>

Next ==
    \/ \E m \in MethodInputs, t \in IntensityInputs : Transfer(m, t)
    \/ \E t \in IntensityInputs : Compose(t)
    \/ ComputeMasks
    \/ \E img \in SaveInputs : GiveResult(img)
    \/ Save

Spec == Init /\ [][Next]_vars

---------------------------------------------------------------------------
(* The shell: StyleTransferApp and the events Qt delivers to it *)

\* the images the file dialogs can return
ContentFiles == { <<<<2, 2, 2>>, <<7, 7, 7>>>>,
                  <<<<10, 8, 6>>>>,
                  <<<<3, 3, 3>>, <<2, 2, 2>>, <<10, 8, 6>>>> }

StyleFiles == { <<<<8, 8, 8>>, <<10, 2, 0>>>>, <<<<10, 2, 0>>>> }

\* the positions the user drags the slider to
SliderInputs == {0, 85, 100}

\* mutant: a repeating timer
SingleShotOff == FALSE

\* self.update_timer.setSingleShot(True)
SingleShot == TRUE

\* __init__ and initUI
AppInit ==
    /\ content_image = None
    /\ style_image = None
    /\ result_image = None
    /\ styled_image = None
    /\ intensity = 100
    /\ transfer_method = "histogram"
    /\ slider = 85
    /\ timer_active = FALSE
    /\ masks = NoMasks
    /\ saved = None
    /\ err = ""
    /\ op = "app"
    /\ blend_intensity = 100
    /\ timer_blends = 0

\* load_content_image with a file chosen and decoded
load_content_image(img) ==
    /\ content_image' = img
    /\ err' = ""
    /\ UNCHANGED <<style_image, styled_image, result_image, intensity, transfer_method,
                   slider, timer_active, masks, saved, op, blend_intensity,
                   timer_blends>>

\* load_style_image with a file chosen and decoded
load_style_image(img) ==
    /\ style_image' = img
    /\ err' = ""
    /\ UNCHANGED <<content_image, styled_image, result_image, intensity,
                   transfer_method, slider, timer_active, masks, saved, op,
                   blend_intensity, timer_blends>>

\* the body of apply_style_transfer with the method m; nothing but a message
\* box when an image is missing
StyleTransfer(m) ==
    IF content_image # None /\ style_image # None
    THEN /\ styled_image' = Dispatch(m, content_image, style_image)
         /\ result_image' = blend_images(ToFine(content_image), styled_image', intensity)
         /\ blend_intensity' = intensity
    ELSE UNCHANGED <<styled_image, result_image, blend_intensity>>

\* the Apply button
apply_style_transfer ==
    /\ StyleTransfer(transfer_method)
    /\ err' = ""
    /\ UNCHANGED <<content_image, style_image, intensity, transfer_method, slider,
                   timer_active, masks, saved, op, timer_blends>>

\* currentIndexChanged of the method combo box
on_method_changed(m) ==
    /\ m # transfer_method
    /\ transfer_method' = m
    /\ IF content_image # None /\ style_image # None
       THEN StyleTransfer(m)
       ELSE UNCHANGED <<styled_image, result_image, blend_intensity>>
    /\ err' = ""
    /\ UNCHANGED <<content_image, style_image, intensity, slider, timer_active, masks,
                   saved, op, timer_blends>>

\* valueChanged of the slider: update_intensity(value)
update_intensity(value) ==
    /\ value # slider
    /\ slider' = value
    /\ intensity' = value
    /\ IF content_image # None /\ styled_image # None
       THEN timer_active' = TRUE /\ timer_blends' = 0
       ELSE UNCHANGED <<timer_active, timer_blends>>
    /\ err' = ""
    /\ UNCHANGED <<content_image, style_image, styled_image, result_image,
                   transfer_method, masks, saved, op, blend_intensity>>

\* timeout of update_timer: apply_intensity_blend.  blend_images raises
\* ValueError, which nothing catches, when the shapes do not broadcast.
apply_intensity_blend ==
    /\ timer_active
    /\ timer_active' = ~SingleShot
    /\ IF content_image # None /\ styled_image # None
       THEN /\ timer_blends' = timer_blends + 1
            /\ blend_intensity' = intensity
            /\ IF Broadcastable(Len(content_image), Len(styled_image))
               THEN /\ result_image' = blend_images(ToFine(content_image),
                                                    styled_image, intensity)
                    /\ err' = ""
               ELSE /\ result_image' = result_image
                    /\ err' = "ValueError"
       ELSE /\ err' = ""
            /\ UNCHANGED <<result_image, blend_intensity, timer_blends>>
    /\ UNCHANGED <<content_image, style_image, styled_image, intensity,
                   transfer_method, slider, masks, saved, op>>

\* the Clear button; the timer is left as it is
clear_images ==
    /\ content_image' = None
    /\ style_image' = None
    /\ result_image' = None
    /\ styled_image' = None
    /\ err' = ""
    /\ UNCHANGED <<intensity, transfer_method, slider, timer_active, masks, saved, op,
                   blend_intensity, timer_blends>>

AppNext ==
    \/ \E img \in ContentFiles : load_content_image(img)
    \/ \E img \in StyleFiles : load_style_image(img)
    \/ apply_style_transfer
    \/ \E m \in KnownMethods : on_method_changed(m)
    \/ \E value \in SliderInputs : update_intensity(value)
    \/ apply_intensity_blend
    \/ clear_images

SpecApp == AppInit /\ [][AppNext]_vars

\* Qt's event loop delivers the timeout of a started timer
SpecAppFair == SpecApp /\ WF_vars(apply_intensity_blend)

---------------------------------------------------------------------------
(* Properties of the engine *)

Samples(img) == {img[p][c] : p \in 1..Len(img), c \in Channels}

\* C1: after a transfer with any method (the eight and the fallback) and any
\* intensity, every sample of the result image lies in [0, 1].
C1_ResultInRange ==
    op = "transfer" => \A x \in Samples(result_image) : 0 <= x /\ x <= F

\* a mean/std transfer that overshot and was clipped, blended at an intensity
\* above 1
C1_Witness ==
    /\ op = "transfer"
    /\ transfer_method = "meanstd"
    /\ intensity > 100
    /\ \E c \in Channels : \E p \in 1..Len(content_image) :
          /\ MeanStdPlane(Chan(content_image, c),
                          Chan(Reconcile(content_image, style_image), c))[p] > F
          /\ result_image[p][c] = F

\* C2: the result at intensity 0.0 is the content image, and the result at
\* intensity 1.0 is the image the method produces.
C2_BlendBoundary ==
    op = "transfer" =>
        /\ intensity = 0 => result_image = ToFine(content_image)
        /\ intensity = 100 =>
               result_image = Dispatch(transfer_method, content_image, style_image)

\* intensity 0.0 on a styled image that differs from the content
C2_Witness ==
    /\ op = "transfer"
    /\ intensity = 0
    /\ styled_image # ToFine(content_image)
    /\ result_image = ToFine(content_image)

\* C3: every pixel is selected by exactly one of the shadows, midtones and
\* highlights masks, and a pixel of luminance exactly 0.3 or 0.7 by midtones.
C3_MasksPartition ==
    op = "masks" =>
        \A p \in 1..Len(content_image) :
            /\ masks.shadows[p] + masks.midtones[p] + masks.highlights[p] = 1
            /\ {masks.shadows[p], masks.midtones[p], masks.highlights[p]} \subseteq {0, 1}
            /\ (10 * Lum(content_image[p]) \in {3 * 1000 * U, 7 * 1000 * U})
                   => masks.midtones[p] = 1

\* masks of an image with a pixel at 0.3, one at 0.7, and one in the shadows
C3_Witness ==
    /\ op = "masks"
    /\ \E p \in 1..Len(content_image) : 10 * Lum(content_image[p]) = 3 * 1000 * U
    /\ \E p \in 1..Len(content_image) : 10 * Lum(content_image[p]) = 7 * 1000 * U
    /\ \E p \in 1..Len(content_image) : masks.shadows[p] = 1

\* round(v / d), halves up
RoundDiv(v, d) == (2 * v + d) \div (2 * d)

\* C4: saving converts every sample x to round(clamp(x, 0, 1) * 255).
C4_SaveRounds ==
    op = "save" =>
        \A p \in 1..Len(result_image) : \A c \in Channels :
            saved[p][c] = RoundDiv(Clip(result_image[p][c], 0, F) * 255, F)

\* C5: blend_images given two images of different shapes fails and produces
\* no image.
C5_BlendRejectsMismatch ==
    (op = "blend" /\ Len(content_image) # Len(style_image)) =>
        (err # "" /\ result_image = None)

\* the band of a selective mode, from luminance in units of 1/(1000 U)
InBand(mode, l) ==
    IF mode = "selective_shadows" THEN l < 300 * U
    ELSE IF mode = "selective_midtones" THEN l >= 300 * U /\ l <= 700 * U
    ELSE l > 700 * U

SelectiveMethods == {"selective_shadows", "selective_midtones", "selective_highlights"}

\* C6: selective transfer leaves a pixel outside the band at the content's
\* values and gives a pixel inside the band the histogram-matched values.
C6_SelectiveFrame ==
    (op = "transfer" /\ transfer_method \in SelectiveMethods) =>
        \A p \in 1..Len(content_image) :
            IF InBand(transfer_method, Lum(content_image[p]))
            THEN styled_image[p] =
                     match_histograms_multichannel(content_image, style_image)[p]
            ELSE styled_image[p] = ToFine(content_image)[p]

\* a selective transfer with a pixel inside the band and one outside it, the
\* matched values differing from the content's at both
C6_Witness ==
    /\ op = "transfer"
    /\ transfer_method \in SelectiveMethods
    /\ \E p, q \in 1..Len(content_image) :
          LET matched == match_histograms_multichannel(content_image, style_image)
          IN  /\ InBand(transfer_method, Lum(content_image[p]))
              /\ ~InBand(transfer_method, Lum(content_image[q]))
              /\ matched[p] # ToFine(content_image)[p]
              /\ matched[q] # ToFine(content_image)[q]
              /\ styled_image[p] = matched[p]
              /\ styled_image[q] = ToFine(content_image)[q]

\* C7: an identifier that is none of the eight raises nothing and gives the
\* styled image and the result that histogram gives.
C7_UnknownIsHistogram ==
    (op = "transfer" /\ transfer_method \notin KnownMethods) =>
        /\ err = ""
        /\ styled_image = Dispatch("histogram", content_image, style_image)
        /\ result_image =
               blend_images(ToFine(content_image),
                            Dispatch("histogram", content_image, style_image),
                            intensity)

\* an unknown identifier on a pair for which mean/std and histogram differ
C7_Witness ==
    /\ op = "transfer"
    /\ transfer_method \notin KnownMethods
    /\ styled_image # Dispatch("meanstd", content_image, style_image)
    /\ styled_image # ToFine(content_image)

IsConstant(img) == \A p \in 1..Len(img) : img[p] = img[1]

\* C8: mean/std transfer of a constant content image and a constant style
\* image gives the style's channel mean, clamped to [0, 1], everywhere.
C8_MeanStdConstant ==
    (op = "transfer" /\ transfer_method = "meanstd"
        /\ IsConstant(content_image) /\ IsConstant(style_image)) =>
        /\ err = ""
        /\ Len(styled_image) = Len(content_image)
        /\ \A p \in 1..Len(styled_image) : \A c \in Channels :
               styled_image[p][c] = Clip(style_image[1][c] * K, 0, F)

\* content all (0.2, 0.2, 0.2), style all (0.8, 0.8, 0.8), four pixels each
C8_Witness ==
    /\ op = "transfer"
    /\ transfer_method = "meanstd"
    /\ Len(content_image) = 4
    /\ Len(style_image) = 4
    /\ \A p \in 1..Len(content_image) : content_image[p] = <<2, 2, 2>>
    /\ \A p \in 1..Len(style_image) : style_image[p] = <<8, 8, 8>>
    /\ \A p \in 1..Len(styled_image) : styled_image[p] = <<8 * K, 8 * K, 8 * K>>

---------------------------------------------------------------------------
(* Properties of the shell *)

ImagesPresent == content_image # None /\ styled_image # None

\* a step in which the slider moved
IntensityChanged == slider' # slider

\* a step in which the pending timer expired
TimerExpired == timer_active /\ ~timer_active'

\* C9: an intensity change computes no blend and, with a content and a styled
\* image present, leaves the timer pending; the expiry of the timer computes
\* one blend, with the intensity set last, and leaves no timer pending; an
\* expiry after the images were cleared computes none; the timer computes at
\* most one blend each time it is started, and a started timer expires.
C9_Debounce ==
    /\ [][ /\ IntensityChanged =>
                /\ result_image' = result_image
                /\ blend_intensity' = blend_intensity
                /\ ImagesPresent => (timer_active' /\ timer_blends' = 0)
           /\ TimerExpired =>
                IF ImagesPresent
                THEN /\ timer_blends' = 1
                     /\ blend_intensity' = slider
                     /\ err' = "" =>
                            result_image' = blend_images(ToFine(content_image),
                                                        styled_image, slider)
                ELSE /\ result_image' = result_image
                     /\ blend_intensity' = blend_intensity
                     /\ timer_blends' = timer_blends ]_vars
    /\ [](timer_blends <= 1)
    /\ timer_active ~> ~timer_active

\* the slider went to 0 and the timer then blended the result back to the
\* content image
C9_Witness ==
    /\ timer_blends = 1
    /\ ~timer_active
    /\ ImagesPresent
    /\ slider = 0
    /\ blend_intensity = 0
    /\ styled_image # ToFine(content_image)
    /\ result_image = ToFine(content_image)

\* C10: a result image, whenever there is one, is the blend of the loaded
\* content image with the styled image of the loaded content, the loaded
\* style and the current method, at the intensity it was computed with.
C10_ResultFresh ==
    result_image # None =>
        /\ content_image # None
        /\ style_image # None
        /\ result_image =
               blend_images(ToFine(content_image),
                            Dispatch(transfer_method, content_image, style_image),
                            blend_intensity)

\* C11: in every reachable state of the application, from the state after
\* construction on, self.intensity equals the slider's value divided by 100,
\* which is the percentage the intensity label shows.  (intensity is kept in
\* percent, and the label's text is always f'{slider}%'.)
C11_IntensityIsSlider == intensity = slider

===========================================================================
